---- MODULE Spec2Model ----
(***************************************************************************)
(* A model of the starlite-saqlalchemy boilerplate layer: the health check *)
(* handler, the HTTP client wrapper, the SQLAlchemy repository, the        *)
(* application construction (Starlite.__init__ and ConfigureApp.__call__)  *)
(* and AppSettings.slug.                                                   *)
(*                                                                         *)
(* Four specifications share the module:                                   *)
(*   SpecService  health_check and Client.request                          *)
(*   SpecRepo     SQLAlchemyRepository over a small table                  *)
(*   SpecApp      Starlite.__init__ / ConfigureApp.__call__                *)
(*   SpecSlug     AppSettings.slug                                         *)
(***************************************************************************)
EXTENDS Integers, Sequences, FiniteSets, TLC

VARIABLES
    NAME,       \* AppSettings.NAME, a sequence of characters
    slug,       \* the value AppSettings.slug returned, once it was read
    hc,         \* the last health_check call: what the database did, what the handler did
    http,       \* the last Client.request call: what httpx did, what request() did
    cfg,        \* what the caller configured before the application was constructed
    app,        \* the configuration the application was constructed with
    store,      \* the table behind the repository: id -> record or NoRecord
    sel,        \* the repository instance's self._select
    res         \* the outcome of the last repository operation

vars == <<NAME, slug, hc, http, cfg, app, store, sel, res>>

(***************************************************************************)
(* Exceptions. A class is a string; Parent gives the class it derives      *)
(* from, as Python, SQLAlchemy, httpx and the repository declare them.     *)
(***************************************************************************)
NoExc == "None"

Parent(c) ==
    CASE c = "Exception" -> "BaseException"
      [] c = "CancelledError" -> "BaseException"
      [] c = "KeyboardInterrupt" -> "BaseException"
      [] c = "SQLAlchemyError" -> "Exception"
      [] c = "IntegrityError" -> "SQLAlchemyError"
      [] c = "OperationalError" -> "SQLAlchemyError"
      [] c = "ArgumentError" -> "SQLAlchemyError"
      [] c = "NoResultFound" -> "SQLAlchemyError"
      [] c = "HTTPError" -> "Exception"
      [] c = "RequestError" -> "HTTPError"
      [] c = "HTTPStatusError" -> "HTTPError"
      [] c = "ConnectError" -> "RequestError"
      [] c = "ReadTimeout" -> "RequestError"
      [] c = "InvalidURL" -> "Exception"
      [] c = "ClientException" -> "Exception"
      [] c = "RepositoryException" -> "Exception"
      [] c = "RepositoryConflictException" -> "RepositoryException"
      [] c = "RepositoryNotFoundException" -> "RepositoryException"
      [] c = "ServiceUnavailableException" -> "Exception"
      [] c = "HealthCheckFailure" -> "ServiceUnavailableException"
      [] c = "ValueError" -> "Exception"
      [] c = "ConnectionRefusedError" -> "Exception"
      [] OTHER -> "object"

RECURSIVE IsSubclass(_, _)
\* isinstance(exc, d) for an exception of class c
IsSubclass(c, d) ==
    IF c = d THEN TRUE
    ELSE IF c \in {"object", "BaseException", NoExc} THEN FALSE
    ELSE IsSubclass(Parent(c), d)

\* An outcome of a call: it returned a value, or raised exc (chained from cause).
Returned(v) == [kind |-> "return", value |-> v, exc |-> NoExc, cause |-> NoExc]
Raised(e, from) == [kind |-> "raise", value |-> "None", exc |-> e, cause |-> from]
Idle == [kind |-> "idle", value |-> "None", exc |-> NoExc, cause |-> NoExc]

(***************************************************************************)
(* health.py: the health check handler.                                    *)
(***************************************************************************)
\* What `(await session.execute(text("SELECT 1"))).scalar_one()` can do.
ScalarValues == {0, 1, 2}
DbExceptions == {"OperationalError", "NoResultFound", "ConnectionRefusedError",
                 "ValueError", "CancelledError", "KeyboardInterrupt"}
DbOutcomes ==
    {[kind |-> "scalar", val |-> v, exc |-> NoExc] : v \in ScalarValues}
    \cup {[kind |-> "raise", val |-> 0, exc |-> e] : e \in DbExceptions}
DbIdle == [kind |-> "idle", val |-> 0, exc |-> NoExc]

\* SQLAlchemyRepository.check_health: scalar_one() == 1, or whatever execute raised
check_health(db) ==
    IF db.kind = "raise" THEN Raised(db.exc, NoExc)
    ELSE Returned(IF db.val = 1 THEN "True" ELSE "False")

\* contextlib.suppress(Exception): does the context swallow exception class e
SuppressesOnlyDbErrors(e) == IsSubclass(e, "SQLAlchemyError")
Suppresses(e) == IsSubclass(e, "Exception")

\* health_check(db_session)
health_check(db) ==
    LET r == check_health(db) IN
    IF r.kind = "return" /\ r.value = "True" THEN Returned("settings.app")
    ELSE IF r.kind = "raise" /\ ~Suppresses(r.exc) THEN r
    ELSE Raised("HealthCheckFailure", NoExc)

HealthCheck ==
    /\ \E db \in DbOutcomes : hc' = [db |-> db, out |-> health_check(db)]
    /\ UNCHANGED <<NAME, slug, http, cfg, app, store, sel, res>>

(***************************************************************************)
(* http.py: Client.request.                                                *)
(***************************************************************************)
Urls == {"/some/resource", "/other"}
StatusCodes == {200, 204, 404, 500}
\* Exceptions httpx.AsyncClient.request raises: HTTPError subclasses carry the
\* request they were raised for; InvalidURL and a cancellation are no HTTPError.
NetExceptions == {"ConnectError", "ReadTimeout", "InvalidURL", "CancelledError"}
NetOutcomes ==
    {[kind |-> "response", status |-> s, exc |-> NoExc] : s \in StatusCodes}
    \cup {[kind |-> "raise", status |-> 0, exc |-> e] : e \in NetExceptions}
NetIdle == [kind |-> "idle", status |-> 0, exc |-> NoExc]

\* httpx.Response.raise_for_status(): HTTPStatusError on a 4xx or 5xx response
raise_for_status(status) ==
    IF status >= 400 THEN "HTTPStatusError" ELSE NoExc

\* the `except httpx.HTTPError` clause: which exceptions it handles
CatchesOnlyStatusErrors(e) == IsSubclass(e, "HTTPStatusError")
Catches(e) == IsSubclass(e, "HTTPError")

\* Client.request(*args, **kwargs)
request(url, net) ==
    LET e == IF net.kind = "raise" THEN net.exc ELSE raise_for_status(net.status) IN
    IF e = NoExc THEN
        [kind |-> "return", status |-> net.status, url |-> url, exc |-> NoExc,
         cause |-> NoExc]
    ELSE IF Catches(e) THEN
        [kind |-> "raise", status |-> 0, url |-> url, exc |-> "ClientException",
         cause |-> e]
    ELSE
        [kind |-> "raise", status |-> 0, url |-> "None", exc |-> e, cause |-> NoExc]

HttpIdle == [kind |-> "idle", status |-> 0, url |-> "None", exc |-> NoExc, cause |-> NoExc]

Request ==
    /\ \E url \in Urls, net \in NetOutcomes :
           http' = [url |-> url, net |-> net, out |-> request(url, net)]
    /\ UNCHANGED <<NAME, slug, hc, cfg, app, store, sel, res>>

(***************************************************************************)
(* config.py: AppSettings.slug.                                            *)
(***************************************************************************)
MaxNameLen == 3
Chars == {"A", "b", " ", "\t"}
Whitespace == {" ", "\t", "\n"}

Names == UNION {[1..n -> Chars] : n \in 0..MaxNameLen}

\* str.lower() on one character
LowerChar(c) == IF c = "A" THEN "a" ELSE IF c = "B" THEN "b" ELSE c

\* str.lower()
Lower(s) == [i \in 1..Len(s) |-> LowerChar(s[i])]

RECURSIVE SplitOn(_, _, _, _)
\* str.split(sep) for a one-character separator: every separator ends a word,
\* so leading, trailing and doubled separators give empty words
SplitOn(sep, s, words, cur) ==
    IF s = <<>> THEN Append(words, cur)
    ELSE IF Head(s) = sep THEN SplitOn(sep, Tail(s), Append(words, cur), <<>>)
    ELSE SplitOn(sep, Tail(s), words, Append(cur, Head(s)))

RECURSIVE SplitWs(_, _, _)
\* str.split() without a separator: runs of whitespace separate the words,
\* leading and trailing whitespace gives no empty word
SplitWs(s, words, cur) ==
    IF s = <<>> THEN (IF cur = <<>> THEN words ELSE Append(words, cur))
    ELSE IF Head(s) \in Whitespace
         THEN SplitWs(Tail(s), IF cur = <<>> THEN words ELSE Append(words, cur), <<>>)
         ELSE SplitWs(Tail(s), words, Append(cur, Head(s)))

SplitOnSpace(s) == SplitOn(" ", s, <<>>, <<>>)
\* self.NAME.split()
Split(s) == SplitWs(s, <<>>, <<>>)

RECURSIVE Join(_, _)
\* sep.join(words)
Join(sep, words) ==
    IF words = <<>> THEN <<>>
    ELSE IF Len(words) = 1 THEN Head(words)
    ELSE Head(words) \o <<sep>> \o Join(sep, Tail(words))

\* AppSettings.slug: "-".join(s.lower() for s in self.NAME.split())
Slugify(name) ==
    LET words == Split(name) IN
    Join("-", [i \in 1..Len(words) |-> Lower(words[i])])

ReadSlug ==
    /\ slug' = [read |-> TRUE, val |-> Slugify(NAME)]
    /\ UNCHANGED <<NAME, hc, http, cfg, app, store, sel, res>>

\* str.replace(" ", "-")
ReplaceSpaces(s) == [i \in 1..Len(s) |-> IF s[i] = " " THEN "-" ELSE s[i]]

(***************************************************************************)
(* starlite/app.py and init_plugin.py: application construction.           *)
(*                                                                         *)
(* A dict is a function on its keys, a list a sequence, an Optional value  *)
(* a sequence of length 0 (None) or 1. A lifecycle or before_send handler  *)
(* is H(name); a list of them held where a single handler may stand too    *)
(* (starlite's SingleOrList) is L(items).                                  *)
(***************************************************************************)
MaxHooks == 2
MaxBeforeSend == 2
MaxWorkerFns == 1
HTTP_500_INTERNAL_SERVER_ERROR == 500

None == <<>>
Some(v) == <<v>>

SeqsUpTo(S, n) == UNION {[1..k -> S] : k \in 0..n}
Dicts(K, V) == UNION {[D -> V] : D \in SUBSET K}
EmptyDictValue == [k \in {} |-> "caller"]

\* `x or []` for an Optional list: None and the empty list give a new empty list
OrEmptyList(opt) ==
    IF opt = None THEN <<>> ELSE IF opt[1] = <<>> THEN <<>> ELSE opt[1]
\* `x or {}` for an Optional dict
OrEmptyDict(opt) ==
    IF opt = None THEN EmptyDictValue
    ELSE IF DOMAIN opt[1] = {} THEN EmptyDictValue ELSE opt[1]

H(n) == [tag |-> "handler", name |-> n, items |-> <<>>]
L(items) == [tag |-> "list", name |-> "", items |-> items]

\* dict.setdefault(k, v), as the dict it leaves
SetDefault(d, k, v) ==
    IF k \in DOMAIN d THEN d
    ELSE [x \in DOMAIN d \cup {k} |-> IF x = k THEN v ELSE d[x]]

DepKeys == {"filters", "session", "other"}
HandlerKeys == {HTTP_500_INTERNAL_SERVER_ERROR, 404}
ShutdownHandlers == {"caller_a", "caller_b"}
StartupHandlers == {"caller_c"}
BeforeSendHandlers == {"bs1", "bs2"}
WorkerFunctions == {"job"}

AddedShutdown == <<"HttpClient.close", "engine.dispose", "redis.close">>
AddedStartup == <<"logging.log_config.configure", "sentry.configure">>

\* The arguments of Starlite.__init__ that it reads: each Optional.
StarliteKwargs ==
    [kind : {"kwargs"},
     dependencies : {None} \cup {Some(d) : d \in Dicts(DepKeys, {"caller"})},
     exception_handlers : {None} \cup {Some(d) : d \in Dicts(HandlerKeys, {"caller"})},
     on_shutdown : {None} \cup {Some(s) : s \in SeqsUpTo(ShutdownHandlers, MaxHooks)},
     on_startup : {None} \cup {Some(s) : s \in SeqsUpTo(StartupHandlers, MaxHooks)},
     worker_functions : {None} \cup {Some(s) : s \in SeqsUpTo(WorkerFunctions, MaxWorkerFns)},
     middleware : {Some(<<"caller_mw">>)},
     route_handlers : {<<"caller_route">>},
     before_send : {L(<<>>)},
     response_class : {None},
     openapi_config : {None}]

\* The AppConfig starlite hands to an on_app_init hook, with the worker
\* functions ConfigureApp was constructed with. Its dicts and lists are never
\* None; before_send is one handler or a list of handlers.
AppConfigs ==
    [kind : {"AppConfig"},
     dependencies : {Some(d) : d \in Dicts(DepKeys, {"caller"})},
     exception_handlers : {Some(d) : d \in Dicts(HandlerKeys, {"caller"})},
     on_shutdown : {Some(s) : s \in SeqsUpTo(ShutdownHandlers, MaxHooks)},
     on_startup : {Some(s) : s \in SeqsUpTo(StartupHandlers, MaxHooks)},
     worker_functions : {None} \cup {Some(s) : s \in SeqsUpTo(WorkerFunctions, MaxWorkerFns)},
     middleware : {Some(<<"caller_mw">>)},
     route_handlers : {<<"caller_route">>},
     before_send : {H(h) : h \in BeforeSendHandlers}
                   \cup {L([i \in 1..Len(s) |-> H(s[i])]) :
                            s \in SeqsUpTo(BeforeSendHandlers, MaxBeforeSend)},
     response_class : {None, Some("caller_response")},
     openapi_config : {None, Some("caller_openapi")}]

NoCfg ==
    [kind |-> "none", dependencies |-> None, exception_handlers |-> None,
     on_shutdown |-> None, on_startup |-> None, worker_functions |-> None,
     middleware |-> None, route_handlers |-> <<>>, before_send |-> L(<<>>),
     response_class |-> None, openapi_config |-> None]

NoApp ==
    [via |-> "none", dependencies |-> EmptyDictValue, exception_handlers |-> EmptyDictValue,
     before_send |-> L(<<>>), on_shutdown |-> <<>>, on_startup |-> <<>>,
     middleware |-> <<>>, route_handlers |-> <<>>, response_class |-> "None",
     openapi_config |-> "None", worker |-> FALSE]

\* the dependency defaults: setdefault("filters", ...), setdefault("session", ...)
OverridingDependencies(d) ==
    [k \in DOMAIN d \cup {"filters", "session"} |->
        IF k = "filters" THEN "Provide(filters)"
        ELSE IF k = "session" THEN "Provide(session)" ELSE d[k]]
DefaultDependencies(d) ==
    SetDefault(SetDefault(d, "filters", "Provide(filters)"), "session", "Provide(session)")

\* exception_handlers.setdefault(HTTP_500_INTERNAL_SERVER_ERROR, logging_exception_handler)
DefaultExceptionHandlers(d) ==
    SetDefault(d, HTTP_500_INTERNAL_SERVER_ERROR, "logging_exception_handler")

\* on_shutdown.extend([HttpClient.close, engine.dispose, redis.close])
PrependShutdown(hooks) == AddedShutdown \o hooks
ExtendShutdown(hooks) == hooks \o AddedShutdown

\* on_startup.extend([logging.log_config.configure, sentry.configure])
ExtendStartup(hooks) == hooks \o AddedStartup

\* `if worker_functions:` append worker.stop / worker_on_app_startup
AlwaysWorkerHooks(fns, shutdown, startup) ==
    [worker |-> TRUE, on_shutdown |-> Append(shutdown, "worker.stop"),
     on_startup |-> Append(startup, "worker_on_app_startup")]
WorkerHooks(fns, shutdown, startup) ==
    IF fns # <<>>
    THEN [worker |-> TRUE, on_shutdown |-> Append(shutdown, "worker.stop"),
          on_startup |-> Append(startup, "worker_on_app_startup")]
    ELSE [worker |-> FALSE, on_shutdown |-> shutdown, on_startup |-> startup]

\* Starlite.__init__(**kwargs): the arguments of super().__init__
StarliteInit(k) ==
    LET dependencies == DefaultDependencies(OrEmptyDict(k.dependencies))
        exception_handlers ==
            DefaultExceptionHandlers(OrEmptyDict(k.exception_handlers))
        middleware == <<"DBSessionMiddleware">> \o OrEmptyList(k.middleware)
        on_shutdown == ExtendShutdown(OrEmptyList(k.on_shutdown))
        on_startup == ExtendStartup(OrEmptyList(k.on_startup))
        worker_functions == OrEmptyList(k.worker_functions)
        w == WorkerHooks(worker_functions, on_shutdown, on_startup)
    IN  [via |-> "Starlite", dependencies |-> dependencies,
         exception_handlers |-> exception_handlers,
         before_send |-> k.before_send,
         on_shutdown |-> w.on_shutdown, on_startup |-> w.on_startup,
         middleware |-> middleware,
         route_handlers |-> Append(k.route_handlers, "health.health_check"),
         response_class |-> "Response", openapi_config |-> "openapi.config",
         worker |-> w.worker]

\* ConfigureApp.__init__: [] if worker_functions is None else worker_functions
ConfigureAppInit(worker_functions) ==
    IF worker_functions = None THEN <<>> ELSE worker_functions[1]

\* the before_send lines of ConfigureApp.__call__
AlwaysWrapBeforeSend(bs) == L(Append(<<bs>>, H("db.transaction_manager")))
AppendBeforeSend(bs) ==
    LET asList == IF bs.tag # "list" THEN L(<<bs>>) ELSE bs
    IN  L(Append(asList.items, H("db.transaction_manager")))

\* ConfigureApp(worker_functions).__call__(app_config): the AppConfig it returns
ConfigureAppCall(c) ==
    LET w == WorkerHooks(ConfigureAppInit(c.worker_functions),
                         ExtendShutdown(c.on_shutdown[1]), ExtendStartup(c.on_startup[1]))
    IN  [via |-> "ConfigureApp",
         dependencies |-> DefaultDependencies(c.dependencies[1]),
         exception_handlers |-> DefaultExceptionHandlers(c.exception_handlers[1]),
         before_send |-> AppendBeforeSend(c.before_send),
         on_shutdown |-> w.on_shutdown, on_startup |-> w.on_startup,
         middleware |-> c.middleware[1],
         route_handlers |-> Append(c.route_handlers, "health.health_check"),
         response_class |->
             IF c.response_class = None THEN "response.Response" ELSE c.response_class[1],
         openapi_config |->
             IF c.openapi_config = None THEN "openapi.config" ELSE c.openapi_config[1],
         worker |-> w.worker]

ConstructStarlite ==
    /\ cfg.kind = "kwargs" /\ app.via = "none"
    /\ app' = StarliteInit(cfg)
    /\ UNCHANGED <<NAME, slug, hc, http, cfg, store, sel, res>>

ConfigureApp ==
    /\ cfg.kind = "AppConfig" /\ app.via = "none"
    /\ app' = ConfigureAppCall(cfg)
    /\ UNCHANGED <<NAME, slug, hc, http, cfg, store, sel, res>>

(***************************************************************************)
(* repository/sqlalchemy.py: SQLAlchemyRepository over one table whose     *)
(* rows have a primary key `id` and a datetime column `created`.           *)
(***************************************************************************)
MaxWheres == 2

\* the primary keys and the datetimes the rows and the filters are drawn from
Ids == {1, 2}
Times == {0, 1}
Limits == {1}
Offsets == {0, 1}

\* A where clause: field <op> value. A None value compares as SQL NULL.
Clause(f, op, vals, null) == [field |-> f, op |-> op, vals |-> vals, null |-> null]
NoPage == [set |-> FALSE, limit |-> 0, offset |-> 0]

\* select(self.model_type): SQLAlchemyRepository.__init__
BaseSelect == [wheres |-> {}, page |-> NoPage]

\* The value of a row's column.
Column(id, created, f) == IF f = "id" THEN id ELSE created

\* Does the row satisfy the clause: a comparison with NULL is never true.
Satisfies(id, created, c) ==
    LET v == Column(id, created, c.field) IN
    IF c.null THEN FALSE
    ELSE CASE c.op = "==" -> v \in c.vals
           [] c.op = "in" -> v \in c.vals
           [] c.op = "<" -> \E b \in c.vals : v < b
           [] c.op = ">" -> \E b \in c.vals : v > b
           [] OTHER -> FALSE

\* The ids of the rows the select's where clauses admit.
Matched(st, s) ==
    {i \in DOMAIN st : \A c \in s.wheres : Satisfies(i, st[i], c)}

Min(a, b) == IF a < b THEN a ELSE b
Max(a, b) == IF a > b THEN a ELSE b

\* self._execute(): the sets of rows the statement may return. Without an ORDER
\* BY a LIMIT/OFFSET page is any set of the right size.
Execute(st, s) ==
    LET m == Matched(st, s) IN
    IF ~s.page.set THEN {m}
    ELSE {r \in SUBSET m :
            Cardinality(r) = Min(s.page.limit, Max(0, Cardinality(m) - s.page.offset))}

\* A select that was built, or the exception building it raised.
Built(s) == [sel |-> s, exc |-> NoExc]
BuildFailed(s, e) == [sel |-> s, exc |-> e]

\* _filter_select_by_kwargs(**{key: val})
FilterSelectByKwargs(s, key, val) ==
    [s EXCEPT !.wheres = @ \cup {Clause(key, "==", {val}, FALSE)}]

\* _apply_limit_offset_pagination(limit, offset)
ApplyLimitOffsetPagination(s, limit, offset) ==
    [s EXCEPT !.page = [set |-> TRUE, limit |-> limit, offset |-> offset]]

\* _filter_in_collection(field_name, values): column.in_(values) raises
\* ArgumentError for a collection it does not take as a list of values (a str)
FilterInCollection(s, f, values, sequence) ==
    IF values = {} THEN Built(s)
    ELSE IF ~sequence THEN BuildFailed(s, "ArgumentError")
    ELSE Built([s EXCEPT !.wheres = @ \cup {Clause(f, "in", values, FALSE)}])

\* A `datetime | None` bound: None is <<>>, a datetime t is <<t>>.
BoundClause(f, op, bound) ==
    IF bound = <<>> THEN Clause(f, op, {}, TRUE) ELSE Clause(f, op, {bound[1]}, FALSE)

\* _filter_on_datetime_field(field_name, before, after): the `after` branch
\* compares the field with `before`
FilterOnDatetimeField(s, f, before, after) ==
    LET s1 == IF before # <<>>
              THEN [s EXCEPT !.wheres = @ \cup {BoundClause(f, "<", before)}] ELSE s
    IN  IF after # <<>>
        THEN [s1 EXCEPT !.wheres = @ \cup {BoundClause(f, ">", before)}] ELSE s1

\* wrap_sqlalchemy_exception(): the exception that leaves the context when
\* exception e is raised inside it
WrapSqlalchemyException(e) ==
    IF IsSubclass(e, "IntegrityError") THEN "RepositoryConflictException"
    ELSE IF IsSubclass(e, "SQLAlchemyError") THEN "RepositoryException"
    ELSE e

\* ... and the exception it is chained from
WrapCause(e) == IF IsSubclass(e, "SQLAlchemyError") THEN e ELSE NoExc

\* AbstractRepository.check_not_found(instance): raises when instance is None
check_not_found(rows) == IF rows = {} THEN "RepositoryNotFoundException" ELSE NoExc

\* The filters list() matches on. A CollectionFilter's values are a Collection:
\* a sequence of values, or a str (sequence = FALSE).
LimitOffset(limit, offset) ==
    [kind |-> "LimitOffset", limit |-> limit, offset |-> offset, field |-> "",
     before |-> <<>>, after |-> <<>>, values |-> {}, sequence |-> TRUE]
BeforeAfter(f, before, after) ==
    [kind |-> "BeforeAfter", limit |-> 0, offset |-> 0, field |-> f,
     before |-> before, after |-> after, values |-> {}, sequence |-> TRUE]
CollectionFilter(f, values, sequence) ==
    [kind |-> "CollectionFilter", limit |-> 0, offset |-> 0, field |-> f,
     before |-> <<>>, after |-> <<>>, values |-> values, sequence |-> sequence]

OptTimes == {<<>>} \cup {<<t>> : t \in Times}
Filters ==
    {LimitOffset(l, o) : l \in Limits, o \in Offsets}
    \cup {BeforeAfter("created", b, a) : b \in OptTimes, a \in OptTimes}
    \cup {CollectionFilter("id", v, q) : v \in SUBSET Ids, q \in BOOLEAN}
\* list(*filters, **kwargs): no filter, one filter, or id=<value>
ListArgs ==
    {[filters |-> <<>>, kwargs |-> <<>>]}
    \cup {[filters |-> <<f>>, kwargs |-> <<>>] : f \in Filters}
    \cup {[filters |-> <<>>, kwargs |-> <<i>>] : i \in Ids}

\* One iteration of list()'s `match filter_:`
ApplyFilter(s, f) ==
    CASE f.kind = "LimitOffset" -> Built(ApplyLimitOffsetPagination(s, f.limit, f.offset))
      [] f.kind = "BeforeAfter" -> Built(FilterOnDatetimeField(s, f.field, f.before, f.after))
      [] f.kind = "CollectionFilter" -> FilterInCollection(s, f.field, f.values, f.sequence)
      [] OTHER -> Built(s)

RECURSIVE ApplyFilters(_, _)
\* list()'s `for filter_ in filters:`, up to the first filter that raises
ApplyFilters(s, fs) ==
    IF fs = <<>> THEN Built(s)
    ELSE LET b == ApplyFilter(s, Head(fs)) IN
         IF b.exc # NoExc THEN b ELSE ApplyFilters(b.sel, Tail(fs))

\* What the database may raise during one operation, and where: while the
\* select is executed, or while the session is flushed.
NoFault == [site |-> "none", exc |-> NoExc]
Faults ==
    {NoFault,
     [site |-> "execute", exc |-> "OperationalError"],
     [site |-> "execute", exc |-> "ValueError"],
     [site |-> "flush", exc |-> "IntegrityError"]}

At(fault, site) == IF fault.site = site THEN fault.exc ELSE NoExc

\* what an outcome keeps of the filter list() was called with
FilterSeen(filters) ==
    IF filters = <<>> THEN [kind |-> "none", before |-> <<>>, after |-> <<>>]
    ELSE [kind |-> filters[1].kind, before |-> filters[1].before, after |-> filters[1].after]

\* The outcome of a repository operation.
Outcome(op, id, created, filters, fault, exc, cause, rows) ==
    [op |-> op, id |-> id, created |-> created,
     filter |-> FilterSeen(filters),
     fault |-> fault.site, exc |-> exc, cause |-> cause, rows |-> rows]
NoOutcome == Outcome("none", 0, 0, <<>>, NoFault, NoExc, NoExc, {})

\* An exception e raised inside `with wrap_sqlalchemy_exception():`
InWrap(e) == [exc |-> WrapSqlalchemyException(e), cause |-> WrapCause(e)]
\* An exception raised outside of any such context
Unwrapped(e) == [exc |-> e, cause |-> NoExc]

\* get(id_): the select it leaves, the exception it raises and the rows found
Get(st, s, id, fault) ==
    LET s1 == FilterSelectByKwargs(s, "id", id) IN
    IF At(fault, "execute") # NoExc
    THEN {[sel |-> s1, rows |-> {}] @@ InWrap(At(fault, "execute"))}
    ELSE {[sel |-> s1, rows |-> r] @@ InWrap(check_not_found(r)) : r \in Execute(st, s1)}

Fits(s) == Cardinality(s.wheres) <= MaxWheres

\* A new repository instance (one is provided per request).
NewRepository ==
    /\ sel # BaseSelect
    /\ sel' = BaseSelect
    /\ UNCHANGED <<NAME, slug, hc, http, cfg, app, store, res>>

RepoGet ==
    \E id \in Ids, fault \in Faults :
        /\ fault.site # "flush"
        /\ \E g \in Get(store, sel, id, fault) :
              /\ Fits(g.sel)
              /\ sel' = g.sel
              /\ res' = Outcome("get", id, 0, <<>>, fault, g.exc, g.cause, g.rows)
        /\ UNCHANGED <<NAME, slug, hc, http, cfg, app, store>>

\* add(data): a row with the primary key of a stored row fails the flush
RepoAdd ==
    \E id \in Ids, created \in Times, fault \in Faults :
        /\ fault.site # "execute"
        /\ LET e == IF id \in DOMAIN store THEN "IntegrityError" ELSE At(fault, "flush")
               w == InWrap(e)
           IN  /\ store' = IF e = NoExc THEN (id :> created) @@ store ELSE store
               /\ res' = Outcome("add", id, created, <<>>, fault, w.exc, w.cause,
                                 IF e = NoExc THEN {id} ELSE {})
        /\ UNCHANGED <<NAME, slug, hc, http, cfg, app, sel>>

\* What leaves an operation's own context when the get() it calls raised g, or
\* else the flush raised e.
AfterLookup(g, e) ==
    IF g.exc # NoExc THEN [exc |-> WrapSqlalchemyException(g.exc), cause |-> g.cause]
    ELSE InWrap(e)

RepoDelete ==
    \E id \in Ids, fault \in Faults :
        \E g \in Get(store, sel, id, fault) :
            LET w == AfterLookup(g, At(fault, "flush")) IN
            /\ Fits(g.sel)
            /\ sel' = g.sel
            /\ store' = IF w.exc = NoExc
                        THEN [i \in DOMAIN store \ {id} |-> store[i]] ELSE store
            /\ res' = Outcome("delete", id, 0, <<>>, fault, w.exc, w.cause,
                              IF w.exc = NoExc THEN {id} ELSE {})
            /\ UNCHANGED <<NAME, slug, hc, http, cfg, app>>

\* update(data): `await self.get(id_)` before the merge
UpdateWithoutLookup(st, s, id, fault) ==
    {[sel |-> s, rows |-> {id}, exc |-> NoExc, cause |-> NoExc]}
UpdateLookup(st, s, id, fault) == Get(st, s, id, fault)

RepoUpdate ==
    \E id \in Ids, created \in Times, fault \in Faults :
        \E g \in UpdateLookup(store, sel, id, fault) :
            LET w == AfterLookup(g, At(fault, "flush")) IN
            /\ Fits(g.sel)
            /\ sel' = g.sel
            /\ store' = IF w.exc = NoExc THEN (id :> created) @@ store ELSE store
            /\ res' = Outcome("update", id, created, <<>>, fault, w.exc, w.cause,
                              IF w.exc = NoExc THEN {id} ELSE {})
            /\ UNCHANGED <<NAME, slug, hc, http, cfg, app>>

\* upsert(data): session.merge() loads the row by primary key, then the flush
\* inserts or updates it
RepoUpsert ==
    \E id \in Ids, created \in Times, fault \in Faults :
        /\ LET w == InWrap(fault.exc)
           IN  /\ store' = IF w.exc = NoExc THEN (id :> created) @@ store ELSE store
               /\ res' = Outcome("upsert", id, created, <<>>, fault, w.exc, w.cause,
                                 IF w.exc = NoExc THEN {id} ELSE {})
        /\ UNCHANGED <<NAME, slug, hc, http, cfg, app, sel>>

\* list(*filters, **kwargs): the filters are applied before the wrapping
\* context is entered, the select is executed inside it
RepoList ==
    \E args \in ListArgs, fault \in Faults :
        /\ fault.site # "flush"
        /\ LET id == IF args.kwargs = <<>> THEN 0 ELSE args.kwargs[1]
               b == ApplyFilters(sel, args.filters)
               s2 == IF args.kwargs = <<>> THEN b.sel
                     ELSE FilterSelectByKwargs(b.sel, "id", id)
           IN  IF b.exc # NoExc
               THEN /\ fault = NoFault
                    /\ sel' = b.sel
                    /\ res' = Outcome("list", id, 0, args.filters, fault,
                                      Unwrapped(b.exc).exc, Unwrapped(b.exc).cause, {})
               ELSE /\ Fits(s2)
                    /\ sel' = s2
                    /\ IF At(fault, "execute") # NoExc
                       THEN res' = Outcome("list", id, 0, args.filters, fault,
                                           InWrap(fault.exc).exc, InWrap(fault.exc).cause, {})
                       ELSE \E r \in Execute(store, s2) :
                              res' = Outcome("list", id, 0, args.filters, fault,
                                             NoExc, NoExc, r)
        /\ UNCHANGED <<NAME, slug, hc, http, cfg, app, store>>

(***************************************************************************)
(* Specifications.                                                         *)
(***************************************************************************)
ServiceIdle ==
    /\ hc = [db |-> DbIdle, out |-> Idle]
    /\ http = [url |-> "None", net |-> NetIdle, out |-> HttpIdle]
SlugIdle == NAME = <<>> /\ slug = [read |-> FALSE, val |-> <<>>]
AppIdle == cfg = NoCfg /\ app = NoApp
RepoIdle == store = [i \in {} |-> 0] /\ sel = BaseSelect /\ res = NoOutcome

InitService == ServiceIdle /\ SlugIdle /\ AppIdle /\ RepoIdle
NextService == HealthCheck \/ Request
SpecService == InitService /\ [][NextService]_vars

InitSlug ==
    /\ NAME \in Names /\ slug = [read |-> FALSE, val |-> <<>>]
    /\ ServiceIdle /\ AppIdle /\ RepoIdle
NextSlug == ReadSlug
SpecSlug == InitSlug /\ [][NextSlug]_vars

InitApp ==
    /\ cfg \in StarliteKwargs \cup AppConfigs /\ app = NoApp
    /\ ServiceIdle /\ SlugIdle /\ RepoIdle
NextApp == ConstructStarlite \/ ConfigureApp
SpecApp == InitApp /\ [][NextApp]_vars

InitRepo == ServiceIdle /\ SlugIdle /\ AppIdle /\ RepoIdle
NextRepo ==
    \/ NewRepository
    \/ RepoAdd
    \/ RepoGet
    \/ RepoList
    \/ RepoUpdate
    \/ RepoUpsert
    \/ RepoDelete
SpecRepo == InitRepo /\ [][NextRepo]_vars

Init == InitService
Next == NextService
Spec == SpecService

(***************************************************************************)
(* Properties of the health check handler and the HTTP client              *)
(* (SpecService).                                                          *)
(***************************************************************************)
HealthChecked == hc.db.kind # "idle"
Requested == http.net.kind # "idle"

\* C1, as stated: the handler has exactly two outcomes: it returns the app
\* settings when check_health returned True, and raises HealthCheckFailure in
\* every other case, whatever check_health returned or raised.
C1_TwoOutcomes ==
    HealthChecked =>
        IF hc.db.kind = "scalar" /\ hc.db.val = 1
        THEN hc.out = Returned("settings.app")
        ELSE hc.out.kind = "raise" /\ hc.out.exc = "HealthCheckFailure"

\* C1, amended: the handler returns the app settings when check_health returned
\* True; it raises HealthCheckFailure when check_health returned False or raised
\* an exception derived from Exception; an exception that derives from
\* BaseException only (a cancellation, a keyboard interrupt) leaves the handler
\* as it is.
C1_ExceptionsBecomeFailure ==
    HealthChecked =>
        CASE hc.db.kind = "scalar" /\ hc.db.val = 1 -> hc.out = Returned("settings.app")
          [] hc.db.kind = "scalar" /\ hc.db.val # 1 ->
                hc.out.kind = "raise" /\ hc.out.exc = "HealthCheckFailure"
          [] hc.db.kind = "raise" /\ hc.db.exc \in {"CancelledError", "KeyboardInterrupt"} ->
                hc.out.kind = "raise" /\ hc.out.exc = hc.db.exc
          [] OTHER -> hc.out.kind = "raise" /\ hc.out.exc = "HealthCheckFailure"

\* C1's case: the database check raised a database error and the handler
\* answered with HealthCheckFailure.
C1_Witness ==
    /\ hc.db.kind = "raise" /\ hc.db.exc = "ConnectionRefusedError"
    /\ hc.out.exc = "HealthCheckFailure"

HttpErrors == {"HTTPError", "RequestError", "HTTPStatusError", "ConnectError", "ReadTimeout"}

\* C2: a call in which httpx answered or raised an httpx.HTTPError either
\* returns the response unchanged, its status check having passed, or ends
\* with ClientException chained from the HTTPError (the one httpx raised, or
\* the HTTPStatusError of the status check); no call ends with a raw
\* httpx.HTTPError.
C2_HttpErrorsWrapped ==
    Requested =>
        /\ http.out.exc \notin HttpErrors
        /\ (http.net.kind = "response" /\ http.net.status \in {200, 204}) =>
               /\ http.out.kind = "return"
               /\ http.out.status = http.net.status /\ http.out.url = http.url
        /\ (http.net.kind = "response" /\ http.net.status \in {404, 500}) =>
               /\ http.out.kind = "raise" /\ http.out.exc = "ClientException"
               /\ http.out.cause = "HTTPStatusError"
        /\ (http.net.kind = "raise" /\ http.net.exc \in HttpErrors) =>
               /\ http.out.kind = "raise" /\ http.out.exc = "ClientException"
               /\ http.out.cause = http.net.exc

\* C2's case: the request itself failed with an HTTPError and request() ended
\* with ClientException.
C2_Witness ==
    /\ http.net.kind = "raise" /\ http.net.exc = "ConnectError"
    /\ http.out.exc = "ClientException" /\ http.out.cause = "ConnectError"

IsWord(s, i) == s[i] \notin Whitespace
\* the characters of s that are neither whitespace nor a hyphen, in order
Letters(s) == SelectSeq(s, LAMBDA c : c \notin Whitespace \cup {"-"})
\* the number of words of s: the places where a word starts
WordCount(s) ==
    Cardinality({i \in 1..Len(s) : IsWord(s, i) /\ (i = 1 \/ ~IsWord(s, i - 1))})
HyphenCount(s) == Cardinality({i \in 1..Len(s) : s[i] = "-"})
\* NAME's only whitespace is single spaces between two words
SingleSpaced(s) ==
    \A i \in 1..Len(s) :
        ~IsWord(s, i) => /\ s[i] = " " /\ 1 < i /\ i < Len(s)
                         /\ IsWord(s, i - 1) /\ IsWord(s, i + 1)

Constructed == app.via # "none"
\* what the caller supplied, None read as empty
CallerList(opt) == IF opt = None THEN <<>> ELSE opt[1]
CallerDict(opt) == IF opt = None THEN EmptyDictValue ELSE opt[1]
Range(s) == {s[i] : i \in 1..Len(s)}
\* the place of handler h in list s (0 when it is not in it)
IndexOf(s, h) == IF h \in Range(s) THEN CHOOSE i \in 1..Len(s) : s[i] = h ELSE 0
Count(s, h) == Cardinality({i \in 1..Len(s) : s[i] = h})

\* C4: after Starlite.__init__ or ConfigureApp.__call__, on_shutdown is the
\* caller's handlers in their order, then HttpClient.close, engine.dispose,
\* redis.close in this order; on_startup is the caller's handlers in their order,
\* then the logging and the sentry handler.
C4_LifecycleHandlersAppended ==
    Constructed =>
        LET down == CallerList(cfg.on_shutdown)
            up == CallerList(cfg.on_startup)
        IN  /\ Len(app.on_shutdown) >= Len(down) + 3
            /\ SubSeq(app.on_shutdown, 1, Len(down)) = down
            /\ SubSeq(app.on_shutdown, Len(down) + 1, Len(down) + 3)
                   = <<"HttpClient.close", "engine.dispose", "redis.close">>
            /\ Len(app.on_startup) >= Len(up) + 2
            /\ SubSeq(app.on_startup, 1, Len(up)) = up
            /\ SubSeq(app.on_startup, Len(up) + 1, Len(up) + 2)
                   = <<"logging.log_config.configure", "sentry.configure">>

\* C4's case: the caller supplied two shutdown handlers and a startup handler,
\* and the application was constructed.
C4_Witness ==
    /\ app.via = "Starlite"
    /\ cfg.on_shutdown = Some(<<"caller_b", "caller_a">>)
    /\ cfg.on_startup = Some(<<"caller_c">>)
    /\ Len(app.on_shutdown) = 5

\* C5: a worker is instantiated exactly when worker_functions is non-empty; the
\* start hook is in on_startup exactly when worker.stop is in on_shutdown,
\* exactly when worker_functions is non-empty; then each is there once, the
\* start hook after the logging and sentry handlers, worker.stop after the HTTP
\* client, engine and redis handlers.
C5_WorkerHooksPaired ==
    Constructed =>
        LET has == CallerList(cfg.worker_functions) # <<>>
            down == app.on_shutdown
            up == app.on_startup
        IN  /\ app.worker = has
            /\ ("worker.stop" \in Range(down)) = has
            /\ ("worker_on_app_startup" \in Range(up)) = has
            /\ has =>
                  /\ Count(down, "worker.stop") = 1
                  /\ Count(up, "worker_on_app_startup") = 1
                  /\ \A h \in {"HttpClient.close", "engine.dispose", "redis.close"} :
                         0 < IndexOf(down, h) /\ IndexOf(down, h) < IndexOf(down, "worker.stop")
                  /\ \A h \in {"logging.log_config.configure", "sentry.configure"} :
                         0 < IndexOf(up, h)
                         /\ IndexOf(up, h) < IndexOf(up, "worker_on_app_startup")

\* C5's case: ConfigureApp was given a worker function and configured the
\* application.
C5_Witness ==
    /\ app.via = "ConfigureApp" /\ cfg.worker_functions = Some(<<"job">>)
    /\ app.worker /\ "worker.stop" \in Range(app.on_shutdown)

\* C6: every dependency and exception handler the caller supplied is kept as
\* supplied, "filters", "session" and the 500 handler included; the defaults are
\* installed for exactly the keys the caller left unset; in ConfigureApp
\* response_class and openapi_config are set only when they are None.
C6_DefaultsNeverOverride ==
    Constructed =>
        LET deps == CallerDict(cfg.dependencies)
            hands == CallerDict(cfg.exception_handlers)
        IN  /\ DOMAIN app.dependencies = DOMAIN deps \cup {"filters", "session"}
            /\ \A k \in DOMAIN deps : app.dependencies[k] = deps[k]
            /\ "filters" \notin DOMAIN deps => app.dependencies["filters"] = "Provide(filters)"
            /\ "session" \notin DOMAIN deps => app.dependencies["session"] = "Provide(session)"
            /\ DOMAIN app.exception_handlers = DOMAIN hands \cup {500}
            /\ \A k \in DOMAIN hands : app.exception_handlers[k] = hands[k]
            /\ 500 \notin DOMAIN hands => app.exception_handlers[500] = "logging_exception_handler"
            /\ app.via = "ConfigureApp" =>
                  /\ app.response_class =
                        IF cfg.response_class = None THEN "response.Response"
                        ELSE cfg.response_class[1]
                  /\ app.openapi_config =
                        IF cfg.openapi_config = None THEN "openapi.config"
                        ELSE cfg.openapi_config[1]

\* C6's case: the caller supplied its own "filters" dependency, 500 handler and
\* response class, left "session" unset, and the application was configured.
C6_Witness ==
    /\ app.via = "ConfigureApp"
    /\ DOMAIN cfg.dependencies[1] = {"filters", "other"}
    /\ 500 \in DOMAIN cfg.exception_handlers[1]
    /\ cfg.response_class = Some("caller_response")
    /\ app.dependencies["filters"] = "caller"
    /\ app.dependencies["session"] = "Provide(session)"

\* the handlers of a before_send value: the single one, or those of the list
ConfiguredHandlers(bs) == IF bs.tag = "handler" THEN <<bs>> ELSE bs.items

\* C10: after ConfigureApp.__call__, before_send is a list: the handlers
\* configured beforehand in their order (a single one as one element), then
\* db.transaction_manager last; each of its elements is a handler, also when
\* none was configured.
C10_BeforeSendIsHandlerList ==
    app.via = "ConfigureApp" =>
        /\ app.before_send.tag = "list"
        /\ app.before_send.items
              = ConfiguredHandlers(cfg.before_send) \o <<H("db.transaction_manager")>>
        /\ \A i \in 1..Len(app.before_send.items) :
              app.before_send.items[i].tag = "handler"

\* C10's case: no before_send handler was configured, and ConfigureApp ran.
C10_Witness ==
    /\ app.via = "ConfigureApp" /\ cfg.before_send = L(<<>>)
    /\ app.before_send = L(<<H("db.transaction_manager")>>)

(***************************************************************************)
(* Properties of the repository (SpecRepo).                                *)
(***************************************************************************)
\* a step that is a repository operation, not the making of a new repository
IsOperation == ~(sel' = BaseSelect /\ sel # BaseSelect)

OrmErrors ==
    {"SQLAlchemyError", "IntegrityError", "OperationalError", "ArgumentError", "NoResultFound"}

\* C3: an IntegrityError leaves an operation as RepositoryConflictException, any
\* other SQLAlchemyError as RepositoryException, each chained from the original,
\* an exception that is no SQLAlchemyError as it is; no operation (add, delete,
\* get, list, update, upsert) ends with a raw SQLAlchemyError.
C3_OrmErrorsWrapped ==
    res.op # "none" =>
        /\ res.exc \notin OrmErrors
        /\ res.cause = "IntegrityError" => res.exc = "RepositoryConflictException"
        /\ res.cause \in OrmErrors \ {"IntegrityError"} => res.exc = "RepositoryException"

\* the rows a BeforeAfter(field, before, after) filter is to admit
WithinBounds(created, before, after) ==
    /\ before # <<>> => created < before[1]
    /\ after # <<>> => created > after[1]

\* C8: list() with a BeforeAfter filter returns, of the rows the repository's
\* select admitted before, those whose field is strictly less than `before`
\* (when before is not None) and strictly greater than `after` (when after is not
\* None); a bound that is None adds no restriction.
C8_BeforeAfterRestricts ==
    [][(/\ IsOperation
        /\ res'.op = "list" /\ res'.filter.kind = "BeforeAfter" /\ res'.exc = NoExc
        /\ ~sel.page.set)
       => res'.rows = {i \in Matched(store, sel) :
                         WithinBounds(store[i], res'.filter.before, res'.filter.after)}]_vars

\* C9: update(data) and delete(id_) of an id no stored record has raise the
\* not-found error (the database failing aside) and leave the stored records
\* as they were, so update never inserts; upsert(data) never raises not-found,
\* and (the database failing aside) leaves the record stored under its id, the
\* other records as they were.
C9_NotFoundOrUpsert ==
    [][IsOperation =>
        /\ (res'.op \in {"update", "delete"} /\ res'.id \notin DOMAIN store) =>
              /\ store' = store
              /\ res'.exc # NoExc
              /\ res'.fault = "none" => res'.exc = "RepositoryNotFoundException"
        /\ res'.op = "upsert" =>
              /\ res'.exc # "RepositoryNotFoundException"
              /\ res'.fault = "none" =>
                    /\ res'.exc = NoExc
                    /\ DOMAIN store' = DOMAIN store \cup {res'.id}
                    /\ store'[res'.id] = res'.created
                    /\ \A i \in DOMAIN store \ {res'.id} : store'[i] = store[i]]_vars

\* C9's case: update() was called with the id of no stored record while another
\* record was stored, and raised not-found.
C9_Witness ==
    /\ res.op = "update" /\ res.id = 2 /\ res.exc = "RepositoryNotFoundException"
    /\ DOMAIN store = {1}
====
